---- MODULE Spec2Model ----
(***************************************************************************)
(* FreeAuth: binding a claimed phone number to a Telegram identity.        *)
(*                                                                         *)
(* Two deployments of the same protocol are modelled:                      *)
(*   "express": the Node/Express server with the in-memory Map store       *)
(*              (services/session.js, routes/auth.js, services/telegram.js)*)
(*   "worker" : the Cloudflare worker with the Firestore REST store        *)
(*              (workers/index.js)                                         *)
(* A handler is a sequence of steps; a step is the code that runs between  *)
(* two awaits.  Any other handler's step may run at an await.              *)
(*                                                                         *)
(* JS values.  A JS string that carries data (a phone, a URL, a secret, a  *)
(* name) is a sequence of one-character strings.  null and undefined are   *)
(* two one-element sequences no string equals.  Enumerations the code      *)
(* spells as literals ("pending", ...) are TLA+ strings.  A JS object is a *)
(* function from field names to values; a field the object does not have   *)
(* is not in its DOMAIN.                                                   *)
(*                                                                         *)
(* Left out: sessionService.verifySession (no caller), the rate limiter,   *)
(* the health routes and the Telegram replies' texts.  getSession's        *)
(* `session.status = "expired"` changes the object the handler holds; the  *)
(* response body carries it, the store gets the same value by update.      *)
(***************************************************************************)
EXTENDS Integers, Sequences, FiniteSets, TLC

VARIABLES
  variant,   \* which deployment runs: "express" or "worker"
  now,       \* Date.now(), in milliseconds
  store,     \* express: the Map `verifications`; worker: the Firestore collection
  keys,      \* express: the Map's insertion order (the worker's stays empty)
  timers,    \* express: the pending setTimeout callbacks, {[token, due]}
  procs,     \* the handlers in flight, one per slot
  webhooks,  \* every webhook request issued so far, in order
  commits,   \* history: every write of status "verified", in order
  issued,    \* history: the tokens the random generator has returned
  hooked,    \* history: a session with a webhook has been created
  last       \* the last step's event: the request it took in (req), its answer

vars == <<variant, now, store, keys, timers, procs, webhooks, commits, issued, hooked, last>>

----------------------------------------------------------------------------
(* Bounds of the model *)

MaxTokens == 2      \* tokens the random generator can return
MaxChats == 2       \* Telegram ids (chats and users)
MaxProcs == 2       \* handlers in flight at once
MaxLoad == 3        \* sessions created plus handlers in flight
TicksPerTtl == 1    \* clock steps per session lifetime
MaxTicks == 2       \* clock steps in a run
MaxInitTick == 0    \* the last clock step at which a session is created
MaxHookPeers == 0   \* sessions created beside one that has a webhook
MaxDispatches == 2  \* webhook requests issued by whole POST /webhook requests

Tokens == 1..MaxTokens
Ids == 1..MaxChats
Slots == 1..MaxProcs

(* Program constants *)
ExpressTtlMs == 600000        \* expires_at: Date.now() + 600000
TimerDelayMs == 600000        \* setTimeout(..., 600000)
ExpressExpiresIn == 600       \* expires_in: 600
WorkerMaxSessionAgeS == 3600  \* env.MAX_SESSION_AGE || 3600
MsPerS == 1000

Ttl(v) == IF v = "express" THEN ExpressTtlMs ELSE WorkerMaxSessionAgeS * MsPerS
TickMs(v) == Ttl(v) \div TicksPerTtl

----------------------------------------------------------------------------
(* JS values *)

Null == <<"null">>
Undefined == <<"undefined">>

\* !v for the values a string-typed field can hold
Falsy(v) == v = Null \/ v = Undefined \/ v = <<>>
Truthy(v) == ~Falsy(v)
\* v || null
OrNull(v) == IF Truthy(v) THEN v ELSE Null

Has(obj, k) == k \in DOMAIN obj
\* { ...a, ...b }
Merge(a, b) ==
  [k \in DOMAIN a \cup DOMAIN b |-> IF k \in DOMAIN b THEN b[k] ELSE a[k]]
\* a faulty destructuring that strips nothing (C12 fails with it)
WithoutNothing(obj, k) == obj

\* const { k, ...rest } = obj
Without(obj, k) == [f \in DOMAIN obj \ {k} |-> obj[f]]

Digits == {"0", "1", "2", "3", "4", "5", "6", "7", "8", "9"}
IsDigit(c) == c \in Digits

\* phone.replace(/\D/g, "")
StripNonDigits(s) == SelectSeq(s, IsDigit)

StartsWith09(s) == Len(s) >= 2 /\ s[1] = "0" /\ s[2] = "9"

\* normalizePhone (the three copies are the same text)
normalizePhone(phone) ==
  IF Falsy(phone) THEN <<>>
  ELSE LET cleaned == StripNonDigits(phone)
       IN IF StartsWith09(cleaned) /\ Len(cleaned) = 10
          THEN <<"2", "5", "1">> \o Tail(cleaned)
          ELSE cleaned

\* a faulty validatePhoneNumber without the lower bound (C28 fails with it)
ValidatesUpTo15(phone) ==
  IF Falsy(phone) THEN FALSE
  ELSE Len(StripNonDigits(phone)) <= 15

\* validatePhoneNumber, for a string or missing phone
validatePhoneNumber(phone) ==
  IF Falsy(phone) THEN FALSE
  ELSE LET cleaned == StripNonDigits(phone)
       IN Len(cleaned) >= 10 /\ Len(cleaned) <= 15

\* new URL(url).protocol: the scheme up to and with the first ":", or
\* <<>> when the text has no scheme (the constructor throws)
RECURSIVE SchemeEnd(_, _)
SchemeEnd(s, i) ==
  IF i > Len(s) THEN 0
  ELSE IF s[i] = ":" THEN i
  ELSE SchemeEnd(s, i + 1)

UrlProtocol(url) ==
  LET e == SchemeEnd(url, 1)
  IN IF e <= 1 THEN <<>> ELSE SubSeq(url, 1, e)

\* a faulty validateWebhookUrl that takes http as well (C31 fails with it)
HttpOrHttps(url) ==
  IF Falsy(url) THEN TRUE
  ELSE UrlProtocol(url) \in {<<"h", "t", "t", "p", "s", ":">>, <<"h", "t", "t", "p", ":">>}

\* a faulty validateWebhookUrl that takes every scheme (C17 fails with it)
AnyWebhookUrl(url) == TRUE

\* validateWebhookUrl
validateWebhookUrl(url) ==
  IF Falsy(url) THEN TRUE
  ELSE UrlProtocol(url) = <<"h", "t", "t", "p", "s", ":">>

----------------------------------------------------------------------------
(* Inputs *)

PhoneLocal == <<"0", "9", "1", "1", "2", "3", "4", "5", "6", "7">>
PhoneIntl == <<"+", "2", "5", "1", "9", "1", "1", "2", "3", "4", "5", "6", "7">>
PhoneOther == <<"0", "9", "2", "2", "2", "2", "2", "2", "2", "2">>
PhoneShort == <<"0", "9", "1", "1">>

UrlHttps == <<"h", "t", "t", "p", "s", ":", "/", "/", "x">>
UrlHttp == <<"h", "t", "t", "p", ":", "/", "/", "x">>
Secret == <<"s", "3">>
FirstName == <<"A", "b", "e">>

\* POST /api/init bodies: phone, webhook_url, client_secret
InitBodies ==
  { [phone |-> PhoneLocal, webhook_url |-> Undefined, client_secret |-> Undefined],
    [phone |-> PhoneLocal, webhook_url |-> UrlHttps, client_secret |-> Secret],
    [phone |-> PhoneLocal, webhook_url |-> UrlHttp, client_secret |-> Secret],
    [phone |-> PhoneShort, webhook_url |-> Undefined, client_secret |-> Undefined],
    [phone |-> Undefined, webhook_url |-> UrlHttps, client_secret |-> Undefined] }

\* message.contact of a contact-share update
Contacts ==
  [user_id : Ids, phone_number : {PhoneIntl, PhoneOther}, first_name : {FirstName}]

\* the contact button exists in private chats only, where the chat's id is
\* the sender's id
Sender(chatId) == chatId

Idle == [kind |-> "idle"]
\* the last step took no request in and gave no answer
Quiet == [op |-> "none"]
\* a contact update as the handlers read it
ContactReq(chatId, from, contact) == [chat |-> chatId, from |-> from, contact |-> contact]
IsIdle(i) == procs[i].kind = "idle"

EmptyStore == [t \in {} |-> Idle]

----------------------------------------------------------------------------
(* express: the in-memory store, createMemoryStorage *)

\* Map.set keeps the place of a key it already has
KeysAfterSet(ks, token) ==
  IF \E n \in 1..Len(ks) : ks[n] = token THEN ks ELSE Append(ks, token)

\* a faulty set that writes the record under every key of the Map (C35
\* fails with it)
MemSetAll(verifs, token, data) == [t \in DOMAIN verifs \cup {token} |-> data]

MemSet(verifs, token, data) ==
  [t \in DOMAIN verifs \cup {token} |-> IF t = token THEN data ELSE verifs[t]]

\* create(token, data): verifications.set(token, data)
MemCreate(verifs, token, data) == MemSet(verifs, token, data)

\* a faulty update that also counts the writes a record has had (C25 fails
\* with it)
MemUpdateCounts(verifs, token, data) ==
  IF token \in DOMAIN verifs
  THEN MemSet(verifs, token,
              Merge(Merge(verifs[token], data),
                    [writes |-> IF Has(verifs[token], "writes")
                                THEN verifs[token].writes + 1 ELSE 1]))
  ELSE verifs

\* a faulty update without the test for an existing record (C19 fails with
\* it)
MemUpsert(verifs, token, data) ==
  MemSet(verifs, token,
         IF token \in DOMAIN verifs THEN Merge(verifs[token], data) ELSE data)

\* update(token, data)
MemUpdate(verifs, token, data) ==
  IF token \in DOMAIN verifs
  THEN MemSet(verifs, token, Merge(verifs[token], data))
  ELSE verifs

\* delete(token)
MemDelete(verifs, token) == [t \in DOMAIN verifs \ {token} |-> verifs[t]]
KeysAfterDelete(ks, token) == SelectSeq(ks, LAMBDA t : t # token)

\* a faulty findByChatId predicate, without the test of the status (C1 fails
\* with it)
ChatMatchesAnyStatus(data, chatId) ==
  /\ Has(data, "chat_id")
  /\ data.chat_id = chatId

\* the predicate of findByChatId
ChatMatches(data, chatId) ==
  /\ Has(data, "chat_id")
  /\ data.chat_id = chatId
  /\ data.status = "pending"

\* findByChatId(chatId): the first entry in insertion order, <<>> when none
MemFindByChatId(verifs, ks, chatId) ==
  LET hits == SelectSeq(ks, LAMBDA t : ChatMatches(verifs[t], chatId))
  IN IF hits = <<>> THEN <<>> ELSE <<hits[1]>>

----------------------------------------------------------------------------
(* express: services/session.js *)

\* a faulty sessionData that stores the phone as it was sent (C18 fails
\* with it)
SessionDataRawPhone(body, t) ==
  [status |-> "pending",
   expected_phone |-> body.phone,
   webhook_url |-> OrNull(body.webhook_url),
   client_secret |-> OrNull(body.client_secret),
   created_at |-> t,
   expires_at |-> t + ExpressTtlMs]

\* the sessionData of createSession
ExpressSessionData(body, t) ==
  [status |-> "pending",
   expected_phone |-> normalizePhone(body.phone),
   webhook_url |-> OrNull(body.webhook_url),
   client_secret |-> OrNull(body.client_secret),
   created_at |-> t,
   expires_at |-> t + ExpressTtlMs]

\* the test of getSession
IsExpired(session, t) == Has(session, "expires_at") /\ t > session.expires_at

\* what getSession writes when the test passes
ExpiredUpdate == [status |-> "expired"]

\* a faulty updateData that also writes the shared number over
\* expected_phone (C20 fails with it)
VerifiedUpdateOverExpected(contact, t) ==
  [status |-> "verified",
   expected_phone |-> contact.phone_number,
   phone |-> contact.phone_number,
   telegram_id |-> contact.user_id,
   first_name |-> contact.first_name,
   verified_at |-> t]

\* the updateData of the contact handler
ExpressVerifiedUpdate(contact, t) ==
  [status |-> "verified",
   phone |-> contact.phone_number,
   telegram_id |-> contact.user_id,
   first_name |-> contact.first_name,
   verified_at |-> t]

\* a faulty /start update that writes the status too (C3 fails with it)
StartUpdateReopens(chatId) == [chat_id |-> chatId, status |-> "pending"]

\* what /start <token> writes
StartUpdate(chatId) == [chat_id |-> chatId]

\* the body of the webhook request
WebhookPayload(token, updateData, session) ==
  Merge(Merge([event |-> "verification_success", token |-> token], updateData),
        [secret |-> IF Has(session, "client_secret")
                    THEN session.client_secret ELSE Undefined])

\* a faulty security check that rejects nothing (C7 fails with it)
NeverForwarded(contact, from) == FALSE

\* the security check of the contact handler
IsForwarded(contact, from) == contact.user_id # from

\* a faulty phone comparison that rejects nothing (C8 fails with it)
PhoneNeverMismatches(telegramPhone, expectedPhone) == FALSE

\* telegramPhone !== expectedPhone
PhoneMismatch(telegramPhone, expectedPhone) == telegramPhone # expectedPhone

----------------------------------------------------------------------------
(* Handlers in flight *)

\* a new handler takes the lowest free slot
Busy == {i \in Slots : ~IsIdle(i)}
FreeSlot(i) ==
  /\ IsIdle(i)
  /\ \A j \in Slots : j < i => ~IsIdle(j)
  /\ Cardinality(issued) + Cardinality(Busy) < MaxLoad

\* A handler that neither reads nor writes the store commutes with every
\* step of every other handler: it is taken when no handler is in flight.
Quiescent == Busy = {}

Begin(i, rec) == procs' = [procs EXCEPT ![i] = rec]
Finish(i, resp) == procs' = [procs EXCEPT ![i] = Idle] /\ last' = resp

\* uuidv4() / crypto.randomUUID(): a token never returned before.  Tokens are
\* opaque, so the unused ones are taken in a fixed order.
IsNextToken(token) ==
  token \in Tokens \ issued /\ \A u \in Tokens \ issued : token <= u

\* the bounds on the sessions a run creates
Admitted(body) ==
  /\ now <= MaxInitTick * TickMs(variant)
  /\ Cardinality(issued) + Cardinality(Busy) < MaxLoad
  /\ Truthy(body.webhook_url) => Cardinality(issued) <= MaxHookPeers
  /\ hooked => Cardinality(issued) <= MaxHookPeers

\* history: one write of status "verified": the contact update it was made
\* for, whether that update was taken in later than the session's
\* expires_at, and the status and chat_id the write landed on
CommitRecord(verifs, token, chatId, from, contact, late) ==
  [token |-> token, chat |-> chatId, from |-> from, contact |-> contact,
   late |-> late,
   prior |-> IF token \in DOMAIN verifs THEN verifs[token].status ELSE "absent",
   bound |-> IF token \in DOMAIN verifs /\ Has(verifs[token], "chat_id")
             THEN verifs[token].chat_id ELSE 0]

WebhookRequest(url, body) ==
  [url |-> url, body |-> body, state |-> "outstanding"]

\* the bot_link of the init response
BotLink(token) == [host |-> "t.me", start |-> token]

----------------------------------------------------------------------------
(* express: routes/auth.js *)

\* POST /api/init.  The bot username is known after bot.launch(), so the
\* handler runs from validation to storage.create without a suspension.
ExpressInit(body) ==
  /\ variant = "express"
  /\ UNCHANGED <<variant, now, procs, webhooks, commits>>
  /\ IF Falsy(body.phone) \/ ~validatePhoneNumber(body.phone)
     THEN /\ Quiescent
          /\ last' = [op |-> "init", req |-> body, code |-> 400, error |-> "phone"]
          /\ UNCHANGED <<store, keys, timers, issued, hooked>>
     ELSE IF Truthy(body.webhook_url) /\ ~validateWebhookUrl(body.webhook_url)
     THEN /\ Quiescent
          /\ last' = [op |-> "init", req |-> body, code |-> 400,
                      error |-> "webhook_url"]
          /\ UNCHANGED <<store, keys, timers, issued, hooked>>
     ELSE \E token \in Tokens \ issued :
            /\ IsNextToken(token)
            /\ Admitted(body)
            /\ issued' = issued \cup {token}
            /\ hooked' = (hooked \/ Truthy(body.webhook_url))
            /\ store' = MemCreate(store, token, ExpressSessionData(body, now))
            /\ keys' = KeysAfterSet(keys, token)
            /\ timers' = timers \cup {[token |-> token, due |-> now + TimerDelayMs]}
            /\ last' = [op |-> "init", req |-> body, code |-> 201, token |-> token,
                        bot_link |-> BotLink(token), expires_in |-> ExpressExpiresIn]

\* a faulty timer whose callback runs without waiting for its delay (C21
\* fails with it)
ExpressTimerFireEarly(tm) ==
  /\ variant = "express"
  /\ tm \in timers
  /\ timers' = timers \ {tm}
  /\ IF tm.token \in DOMAIN store /\ store[tm.token].status = "pending"
     THEN /\ store' = MemDelete(store, tm.token)
          /\ keys' = KeysAfterDelete(keys, tm.token)
     ELSE UNCHANGED <<store, keys>>
  /\ UNCHANGED <<variant, now, procs, webhooks, commits, issued, hooked>>
  /\ last' = Quiet

\* a faulty timer whose callback deletes the session whatever its status
\* (C36 fails with it)
ExpressTimerFireAnyStatus(tm) ==
  /\ variant = "express"
  /\ tm \in timers
  /\ now >= tm.due
  /\ timers' = timers \ {tm}
  /\ IF tm.token \in DOMAIN store
     THEN /\ store' = MemDelete(store, tm.token)
          /\ keys' = KeysAfterDelete(keys, tm.token)
     ELSE UNCHANGED <<store, keys>>
  /\ UNCHANGED <<variant, now, procs, webhooks, commits, issued, hooked>>
  /\ last' = Quiet

\* the callback of the setTimeout of create
ExpressTimerFire(tm) ==
  /\ variant = "express"
  /\ tm \in timers
  /\ now >= tm.due
  /\ timers' = timers \ {tm}
  /\ IF tm.token \in DOMAIN store /\ store[tm.token].status = "pending"
     THEN /\ store' = MemDelete(store, tm.token)
          /\ keys' = KeysAfterDelete(keys, tm.token)
     ELSE UNCHANGED <<store, keys>>
  /\ UNCHANGED <<variant, now, procs, webhooks, commits, issued, hooked>>
  /\ last' = Quiet

\* GET /api/check/:token, to the await of storage.get in getSession
ExpressCheckGet(i, token) ==
  /\ variant = "express"
  /\ FreeSlot(i)
  /\ Begin(i, IF token \in DOMAIN store
              THEN [kind |-> "check", pc |-> "got", token |-> token,
                    found |-> TRUE, session |-> store[token]]
              ELSE [kind |-> "check", pc |-> "got", token |-> token,
                    found |-> FALSE, created |-> token \in issued])
  /\ last' = [op |-> "check", req |-> [token |-> token]]
  /\ UNCHANGED <<variant, now, store, keys, timers, webhooks, commits, issued, hooked>>

\* the rest of getSession and the response
ExpressCheckRespond(i) ==
  LET p == procs[i] IN
  /\ variant = "express"
  /\ p.kind = "check" /\ p.pc = "got"
  /\ IF ~p.found
     THEN /\ Finish(i, [op |-> "check", token |-> p.token, code |-> 404])
          /\ UNCHANGED <<store>>
     ELSE IF IsExpired(p.session, now)
     THEN /\ store' = MemUpdate(store, p.token, ExpiredUpdate)
          /\ Finish(i, [op |-> "check", token |-> p.token, code |-> 200,
                        body |-> Without(Merge(p.session, ExpiredUpdate),
                                         "client_secret")])
     ELSE /\ Finish(i, [op |-> "check", token |-> p.token, code |-> 200,
                        body |-> Without(p.session, "client_secret")])
          /\ UNCHANGED <<store>>
  /\ UNCHANGED <<variant, now, keys, timers, webhooks, commits, issued, hooked>>

----------------------------------------------------------------------------
(* express: services/telegram.js *)

\* /start with no token
ExpressStartNoToken(chatId) ==
  /\ variant = "express"
  /\ Quiescent
  /\ last' = [op |-> "start", req |-> [chat |-> chatId], reply |-> "welcome"]
  /\ UNCHANGED <<variant, now, store, keys, timers, procs, webhooks, commits, issued, hooked>>

\* /start <token>, to the await of storage.get
ExpressStartGet(i, chatId, token) ==
  /\ variant = "express"
  /\ FreeSlot(i)
  /\ Begin(i, IF token \in DOMAIN store
              THEN [kind |-> "start", pc |-> "got", token |-> token, chat |-> chatId,
                    found |-> TRUE, status |-> store[token].status]
              ELSE [kind |-> "start", pc |-> "got", token |-> token, chat |-> chatId,
                    found |-> FALSE])
  /\ last' = [op |-> "start", req |-> [chat |-> chatId, token |-> token]]
  /\ UNCHANGED <<variant, now, store, keys, timers, webhooks, commits, issued, hooked>>

\* /start <token>, from the answer of storage.get on
ExpressStartBind(i) ==
  LET p == procs[i] IN
  /\ variant = "express"
  /\ p.kind = "start" /\ p.pc = "got"
  /\ IF ~p.found
     THEN /\ Finish(i, [op |-> "start", token |-> p.token,
                        reply |-> "invalid"])
          /\ UNCHANGED <<store>>
     ELSE IF p.status = "verified"
     THEN /\ Finish(i, [op |-> "start", token |-> p.token,
                        reply |-> "already_verified"])
          /\ UNCHANGED <<store>>
     ELSE /\ store' = MemUpdate(store, p.token, StartUpdate(p.chat))
          /\ Finish(i, [op |-> "start", token |-> p.token,
                        reply |-> "share_contact"])
  /\ UNCHANGED <<variant, now, keys, timers, webhooks, commits, issued, hooked>>

\* the contact handler, to the await of storage.update: findByChatId is not
\* async and update changes the Map when it is called
ExpressContact(i, chatId, from, contact) ==
  LET found == MemFindByChatId(store, keys, chatId) IN
  /\ variant = "express"
  /\ FreeSlot(i)
  /\ UNCHANGED <<variant, now, keys, timers, webhooks, issued, hooked>>
  /\ IF IsForwarded(contact, from)
     THEN /\ Quiescent
          /\ last' = [op |-> "contact", req |-> ContactReq(chatId, from, contact),
                      reply |-> "security_error"]
          /\ UNCHANGED <<store, procs, commits>>
     ELSE IF found = <<>>
     THEN /\ last' = [op |-> "contact", req |-> ContactReq(chatId, from, contact),
                      reply |-> "session_expired"]
          /\ UNCHANGED <<store, procs, commits>>
     ELSE IF PhoneMismatch(normalizePhone(contact.phone_number),
                           store[found[1]].expected_phone)
     THEN /\ last' = [op |-> "contact", req |-> ContactReq(chatId, from, contact),
                      reply |-> "verification_failed"]
          /\ UNCHANGED <<store, procs, commits>>
     ELSE /\ store' = MemUpdate(store, found[1], ExpressVerifiedUpdate(contact, now))
          /\ commits' = Append(commits,
                               CommitRecord(store, found[1], chatId, from, contact,
                                            now > store[found[1]].expires_at))
          /\ Begin(i, [kind |-> "contact", pc |-> "updated", token |-> found[1],
                       chat |-> chatId, session |-> store[found[1]],
                       updateData |-> ExpressVerifiedUpdate(contact, now)])
          /\ last' = [op |-> "contact", req |-> ContactReq(chatId, from, contact)]

\* after the update: axios.post when a webhook is configured, else the reply
ExpressContactAfterUpdate(i) ==
  LET p == procs[i] IN
  /\ variant = "express"
  /\ p.kind = "contact" /\ p.pc = "updated"
  /\ IF Truthy(p.session.webhook_url)
     THEN /\ webhooks' = Append(webhooks,
                 WebhookRequest(p.session.webhook_url,
                                WebhookPayload(p.token, p.updateData, p.session)))
          /\ procs' = [procs EXCEPT ![i] =
                         Merge(p, [pc |-> "await_hook", hook |-> Len(webhooks) + 1])]
          /\ last' = Quiet
     ELSE /\ Finish(i, [op |-> "contact", token |-> p.token,
                        reply |-> "verified"])
          /\ UNCHANGED webhooks
  /\ UNCHANGED <<variant, now, store, keys, timers, commits, issued, hooked>>

\* a faulty end of the contact handler, without the try/catch around
\* axios.post: a failed request reaches the outer catch and its service-error
\* reply (C15 fails with it)
ExpressContactReplySurfaces(i) ==
  LET p == procs[i] IN
  /\ variant = "express"
  /\ p.kind = "contact" /\ p.pc = "await_hook"
  /\ webhooks[p.hook].state # "outstanding"
  /\ Finish(i, [op |-> "contact", token |-> p.token,
                reply |-> IF webhooks[p.hook].state = "failed"
                          THEN "service_error" ELSE "verified"])
  /\ UNCHANGED <<variant, now, store, keys, timers, webhooks, commits, issued, hooked>>

\* the success reply, once axios.post has resolved or thrown
ExpressContactReply(i) ==
  LET p == procs[i] IN
  /\ variant = "express"
  /\ p.kind = "contact" /\ p.pc = "await_hook"
  /\ webhooks[p.hook].state # "outstanding"
  /\ Finish(i, [op |-> "contact", token |-> p.token,
                reply |-> "verified"])
  /\ UNCHANGED <<variant, now, store, keys, timers, webhooks, commits, issued, hooked>>

----------------------------------------------------------------------------
(* worker: the Firestore REST client of workers/index.js *)

\* new Date(ms).toISOString() and new Date(text).getTime()
ToISOString(ms) == <<"iso", ms>>
ParseDate(text) == text[2]

\* typeof data[key], by the field: ids and times are numbers, the two
\* optional fields are strings or null, the rest are strings
NumberFields == {"chat_id", "telegram_id", "verified_at"}
NullableFields == {"webhook_url", "client_secret"}
JsTypeOf(k, v) ==
  IF k \in NumberFields THEN "number"
  ELSE IF k \in NullableFields /\ v = Null THEN "null"
  ELSE IF k \in NullableFields /\ v = Undefined THEN "undefined"
  ELSE "string"

\* toFirestore(data).fields: a value of no listed type gets no field
EncodedKeys(data) ==
  {k \in DOMAIN data : JsTypeOf(k, data[k]) \in {"null", "string", "number"}}
toFirestore(data) ==
  [k \in EncodedKeys(data) |->
     IF JsTypeOf(k, data[k]) = "null" THEN [nullValue |-> Null]
     ELSE IF JsTypeOf(k, data[k]) = "string" THEN [stringValue |-> data[k]]
     ELSE [integerValue |-> data[k]]]

\* if (field.stringValue), if (field.integerValue): the REST API sends an
\* integer as decimal text, which is never empty
\* (status holds one of the code's literals, none of them empty)
FieldDecodes(k, field) ==
  \/ Has(field, "stringValue") /\ (k = "status" \/ field.stringValue # <<>>)
  \/ Has(field, "integerValue")

\* fromFirestore(doc), for a document that has fields
fromFirestore(fields) ==
  [k \in {f \in DOMAIN fields : FieldDecodes(f, fields[f])} |->
     IF Has(fields[k], "stringValue") THEN fields[k].stringValue
     ELSE fields[k].integerValue]

\* createDoc(collection, id, data): PATCH without a mask replaces the document
FsCreateDoc(docs, id, data) ==
  [t \in DOMAIN docs \cup {id} |-> IF t = id THEN toFirestore(data) ELSE docs[t]]

\* updateDoc(collection, id, data): PATCH with updateMask sets the masked
\* fields the body has, removes the masked fields it has not, and creates
\* the document when there is none
FsUpdateDoc(docs, id, data) ==
  LET old == IF id \in DOMAIN docs THEN docs[id] ELSE [k \in {} |-> Null]
      new == toFirestore(data)
      kept == (DOMAIN old \ DOMAIN data) \cup DOMAIN new
  IN [t \in DOMAIN docs \cup {id} |->
        IF t = id
        THEN [k \in kept |-> IF k \in DOMAIN new THEN new[k] ELSE old[k]]
        ELSE docs[t]]

\* the documents runQuery returns for chat_id == value, in the order of
\* their names
RECURSIVE TokensInOrder(_)
TokensInOrder(S) ==
  IF S = {} THEN <<>>
  ELSE LET m == CHOOSE t \in S : \A u \in S : t <= u
       IN <<m>> \o TokensInOrder(S \ {m})

FsQueryDocs(docs, value) ==
  SelectSeq(TokensInOrder(DOMAIN docs),
            LAMBDA t : /\ Has(docs[t], "chat_id")
                       /\ Has(docs[t].chat_id, "integerValue")
                       /\ docs[t].chat_id.integerValue = value)

\* a faulty find that takes the first document whatever its status (C30
\* fails with it)
FirstOfAnyStatus(docs, sessions) ==
  IF sessions = <<>> THEN <<>> ELSE <<sessions[1]>>

\* sessions.find((s) => s.data.status === "pending"): <<>> when none
FirstPending(docs, sessions) ==
  LET hits == SelectSeq(sessions,
                LAMBDA t : /\ Has(fromFirestore(docs[t]), "status")
                           /\ fromFirestore(docs[t]).status = "pending")
  IN IF hits = <<>> THEN <<>> ELSE <<hits[1]>>

----------------------------------------------------------------------------
(* worker: the handlers of workers/index.js *)

WorkerExpiresIn == WorkerMaxSessionAgeS

\* the docData of handleInit
WorkerDocData(body, t) ==
  [status |-> "pending",
   expected_phone |-> normalizePhone(body.phone),
   webhook_url |-> OrNull(body.webhook_url),
   client_secret |-> OrNull(body.client_secret),
   created_at |-> ToISOString(t),
   expires_at |-> ToISOString(t + WorkerMaxSessionAgeS * MsPerS)]

\* the test of handleCheck
WorkerIsExpired(doc, t) == Has(doc, "expires_at") /\ ParseDate(doc.expires_at) < t

\* the updateData of the contact branch
WorkerVerifiedUpdate(contact) ==
  [status |-> "verified",
   phone |-> contact.phone_number,
   telegram_id |-> contact.user_id,
   first_name |-> contact.first_name]

\* the test of the /start branch
WorkerCanBind(docs, token) ==
  /\ token \in DOMAIN docs
  /\ Has(fromFirestore(docs[token]), "status")
  /\ fromFirestore(docs[token]).status = "pending"

\* handleInit
WorkerInit(body) ==
  /\ variant = "worker"
  /\ UNCHANGED <<variant, now, keys, timers, procs, webhooks, commits>>
  /\ IF Falsy(body.phone) \/ ~validatePhoneNumber(body.phone)
     THEN /\ Quiescent
          /\ last' = [op |-> "init", req |-> body, code |-> 400, error |-> "phone"]
          /\ UNCHANGED <<store, issued, hooked>>
     ELSE IF Truthy(body.webhook_url) /\ ~validateWebhookUrl(body.webhook_url)
     THEN /\ Quiescent
          /\ last' = [op |-> "init", req |-> body, code |-> 400,
                      error |-> "webhook_url"]
          /\ UNCHANGED <<store, issued, hooked>>
     ELSE \E token \in Tokens \ issued :
            /\ IsNextToken(token)
            /\ Admitted(body)
            /\ issued' = issued \cup {token}
            /\ hooked' = (hooked \/ Truthy(body.webhook_url))
            /\ store' = FsCreateDoc(store, token, WorkerDocData(body, now))
            /\ last' = [op |-> "init", req |-> body, code |-> 200, token |-> token,
                        bot_link |-> BotLink(token), expires_in |-> WorkerExpiresIn]

\* handleCheck, to the answer of getDoc
WorkerCheckGet(i, token) ==
  /\ variant = "worker"
  /\ FreeSlot(i)
  /\ Begin(i, IF token \in DOMAIN store
              THEN [kind |-> "check", pc |-> "got", token |-> token,
                    found |-> TRUE, session |-> fromFirestore(store[token])]
              ELSE [kind |-> "check", pc |-> "got", token |-> token,
                    found |-> FALSE, created |-> token \in issued])
  /\ last' = [op |-> "check", req |-> [token |-> token]]
  /\ UNCHANGED <<variant, now, store, keys, timers, webhooks, commits, issued, hooked>>

\* handleCheck, from the answer of getDoc to the response or to updateDoc
WorkerCheckDecide(i) ==
  LET p == procs[i] IN
  /\ variant = "worker"
  /\ p.kind = "check" /\ p.pc = "got"
  /\ IF ~p.found
     THEN Finish(i, [op |-> "check", token |-> p.token, code |-> 404])
     ELSE IF WorkerIsExpired(p.session, now)
     THEN /\ procs' = [procs EXCEPT ![i] = Merge(p, [pc |-> "expire"])]
          /\ last' = Quiet
     ELSE Finish(i, [op |-> "check", token |-> p.token, code |-> 200,
                     body |-> Without(p.session, "client_secret")])
  /\ UNCHANGED <<variant, now, store, keys, timers, webhooks, commits, issued, hooked>>

\* handleCheck: updateDoc reaches the store, then the response
WorkerCheckExpire(i) ==
  LET p == procs[i] IN
  /\ variant = "worker"
  /\ p.kind = "check" /\ p.pc = "expire"
  /\ store' = FsUpdateDoc(store, p.token, ExpiredUpdate)
  /\ Finish(i, [op |-> "check", token |-> p.token, code |-> 200,
                body |-> Without(Merge(p.session, ExpiredUpdate), "client_secret")])
  /\ UNCHANGED <<variant, now, keys, timers, webhooks, commits, issued, hooked>>

\* a /start the branch does not take: no "/start " prefix, or no token
WorkerStartNoToken(chatId) ==
  /\ variant = "worker"
  /\ Quiescent
  /\ last' = [op |-> "start", req |-> [chat |-> chatId], reply |-> "none"]
  /\ UNCHANGED <<variant, now, store, keys, timers, procs, webhooks, commits, issued,
                 hooked>>

\* /start <token>, to the answer of getDoc and the test on it
WorkerStartGet(i, chatId, token) ==
  /\ variant = "worker"
  /\ FreeSlot(i)
  /\ IF WorkerCanBind(store, token)
     THEN /\ Begin(i, [kind |-> "start", pc |-> "bind", token |-> token,
                       chat |-> chatId])
          /\ last' = [op |-> "start", req |-> [chat |-> chatId, token |-> token]]
     ELSE /\ last' = [op |-> "start", req |-> [chat |-> chatId, token |-> token],
                      token |-> token, reply |-> "invalid"]
          /\ UNCHANGED procs
  /\ UNCHANGED <<variant, now, store, keys, timers, webhooks, commits, issued, hooked>>

\* /start <token>: updateDoc reaches the store, then the reply
WorkerStartBind(i) ==
  LET p == procs[i] IN
  /\ variant = "worker"
  /\ p.kind = "start" /\ p.pc = "bind"
  /\ store' = FsUpdateDoc(store, p.token, StartUpdate(p.chat))
  /\ Finish(i, [op |-> "start", token |-> p.token, reply |-> "share_contact"])
  /\ UNCHANGED <<variant, now, keys, timers, webhooks, commits, issued, hooked>>

\* the contact branch, to the answer of queryDocs and the tests on it
WorkerContact(i, chatId, from, contact) ==
  LET found == FirstPending(store, FsQueryDocs(store, chatId)) IN
  /\ variant = "worker"
  /\ FreeSlot(i)
  /\ UNCHANGED <<variant, now, store, keys, timers, webhooks, commits, issued, hooked>>
  /\ IF IsForwarded(contact, from)
     THEN /\ Quiescent
          /\ last' = [op |-> "contact", req |-> ContactReq(chatId, from, contact),
                      reply |-> "security_error"]
          /\ UNCHANGED procs
     ELSE IF found = <<>>
     THEN /\ last' = [op |-> "contact", req |-> ContactReq(chatId, from, contact),
                      reply |-> "session_expired"]
          /\ UNCHANGED procs
     ELSE IF PhoneMismatch(normalizePhone(contact.phone_number),
                           fromFirestore(store[found[1]]).expected_phone)
     THEN /\ last' = [op |-> "contact", req |-> ContactReq(chatId, from, contact),
                      reply |-> "verification_failed"]
          /\ UNCHANGED procs
     ELSE /\ Begin(i, [kind |-> "contact", pc |-> "commit", token |-> found[1],
                       chat |-> chatId, from |-> from, contact |-> contact,
                       late |-> now > ParseDate(
                                  fromFirestore(store[found[1]]).expires_at),
                       session |-> fromFirestore(store[found[1]]),
                       updateData |-> WorkerVerifiedUpdate(contact)])
          /\ last' = [op |-> "contact", req |-> ContactReq(chatId, from, contact)]

\* the contact branch: updateDoc reaches the store
WorkerContactCommit(i) ==
  LET p == procs[i] IN
  /\ variant = "worker"
  /\ p.kind = "contact" /\ p.pc = "commit"
  /\ store' = FsUpdateDoc(store, p.token, p.updateData)
  /\ commits' = Append(commits,
                       CommitRecord(IF p.token \in DOMAIN store
                                    THEN (p.token :> fromFirestore(store[p.token]))
                                    ELSE EmptyStore,
                                    p.token, p.chat, p.from, p.contact,
                                    p.late))
  /\ procs' = [procs EXCEPT ![i] = [kind |-> "contact", pc |-> "updated",
                                    token |-> p.token, chat |-> p.chat,
                                    session |-> p.session,
                                    updateData |-> p.updateData]]
  /\ last' = Quiet
  /\ UNCHANGED <<variant, now, keys, timers, webhooks, issued, hooked>>

\* the contact branch after updateDoc: ctx.waitUntil(fetch(...)) is not
\* awaited, the reply follows at once
WorkerContactNotify(i) ==
  LET p == procs[i] IN
  /\ variant = "worker"
  /\ p.kind = "contact" /\ p.pc = "updated"
  /\ IF Has(p.session, "webhook_url")
     THEN webhooks' = Append(webhooks,
              WebhookRequest(p.session.webhook_url,
                             WebhookPayload(p.token, p.updateData, p.session)))
     ELSE UNCHANGED webhooks
  /\ Finish(i, [op |-> "contact", token |-> p.token, reply |-> "verified"])
  /\ UNCHANGED <<variant, now, store, keys, timers, commits, issued, hooked>>

----------------------------------------------------------------------------
(* The environment *)

\* the webhook target answers, or the request fails
WebhookComplete(h, outcome) ==
  /\ h \in 1..Len(webhooks)
  /\ webhooks[h].state = "outstanding"
  /\ webhooks' = [webhooks EXCEPT ![h].state = outcome]
  /\ UNCHANGED <<variant, now, store, keys, timers, procs, commits, issued, hooked>>
  /\ last' = Quiet

\* the clock
Tick ==
  /\ now < MaxTicks * TickMs(variant)
  /\ now' = now + TickMs(variant)
  /\ UNCHANGED <<variant, store, keys, timers, procs, webhooks, commits, issued, hooked>>
  /\ last' = Quiet

----------------------------------------------------------------------------

Init ==
  /\ variant \in {"express", "worker"}
  /\ now = 0
  /\ store = EmptyStore
  /\ keys = <<>>
  /\ timers = {}
  /\ procs = [i \in Slots |-> Idle]
  /\ webhooks = <<>>
  /\ commits = <<>>
  /\ issued = {}
  /\ hooked = FALSE
  /\ last = Quiet

NextExpress ==
  \/ \E body \in InitBodies : ExpressInit(body)
  \/ \E tm \in timers : ExpressTimerFire(tm)
  \/ \E i \in Slots, token \in Tokens : ExpressCheckGet(i, token)
  \/ \E i \in Slots : ExpressCheckRespond(i)
  \/ \E chatId \in Ids : ExpressStartNoToken(chatId)
  \/ \E i \in Slots, chatId \in Ids, token \in Tokens : ExpressStartGet(i, chatId, token)
  \/ \E i \in Slots : ExpressStartBind(i)
  \/ \E i \in Slots, chatId \in Ids, contact \in Contacts :
       ExpressContact(i, chatId, Sender(chatId), contact)
  \/ \E i \in Slots : ExpressContactAfterUpdate(i)
  \/ \E i \in Slots : ExpressContactReply(i)

NextWorker ==
  \/ \E body \in InitBodies : WorkerInit(body)
  \/ \E i \in Slots, token \in Tokens : WorkerCheckGet(i, token)
  \/ \E i \in Slots : WorkerCheckDecide(i)
  \/ \E i \in Slots : WorkerCheckExpire(i)
  \/ \E chatId \in Ids : WorkerStartNoToken(chatId)
  \/ \E i \in Slots, chatId \in Ids, token \in Tokens : WorkerStartGet(i, chatId, token)
  \/ \E i \in Slots : WorkerStartBind(i)
  \/ \E i \in Slots, chatId \in Ids, contact \in Contacts :
       WorkerContact(i, chatId, Sender(chatId), contact)
  \/ \E i \in Slots : WorkerContactCommit(i)
  \/ \E i \in Slots : WorkerContactNotify(i)

NextEnv ==
  \/ \E h \in 1..Len(webhooks), outcome \in {"delivered", "failed"} :
       WebhookComplete(h, outcome)
  \/ Tick

Next == NextExpress \/ NextWorker \/ NextEnv

Spec == Init /\ [][Next]_vars

InitExpress == Init /\ variant = "express"
InitWorker == Init /\ variant = "worker"

SpecExpress == InitExpress /\ [][NextExpress \/ NextEnv]_vars
SpecWorker == InitWorker /\ [][NextWorker \/ NextEnv]_vars

----------------------------------------------------------------------------
(* The stored sessions as both deployments read them *)

\* storage.get(token) / getDoc("verifications", token) on a store value
SessionIn(verifs, token) ==
  IF variant = "express" THEN verifs[token] ELSE fromFirestore(verifs[token])

StatusIn(verifs, token) ==
  IF token \in DOMAIN verifs /\ Has(SessionIn(verifs, token), "status")
  THEN SessionIn(verifs, token).status ELSE "absent"

\* the stored chat_id, 0 when there is none
ChatIn(verifs, token) ==
  IF token \in DOMAIN verifs /\ Has(SessionIn(verifs, token), "chat_id")
  THEN SessionIn(verifs, token).chat_id ELSE 0

ExpectedPhoneIn(verifs, token) == SessionIn(verifs, token).expected_phone

\* expires_at in milliseconds
ExpiresAtIn(verifs, token) ==
  IF variant = "express" THEN verifs[token].expires_at
  ELSE ParseDate(fromFirestore(verifs[token]).expires_at)

\* the pending session a contact from chatId finds, <<>> when none
FoundFor(verifs, ks, chatId) ==
  IF variant = "express" THEN MemFindByChatId(verifs, ks, chatId)
  ELSE FirstPending(verifs, FsQueryDocs(verifs, chatId))

CommitsOf(token) == {n \in 1..Len(commits) : commits[n].token = token}
HooksOf(token) == {h \in 1..Len(webhooks) : webhooks[h].body.token = token}
ContactsInFlight(token) ==
  {i \in Slots : procs[i].kind = "contact" /\ procs[i].token = token}

\* the step just taken took in a contact update
ContactTaken == last'.op = "contact" /\ Has(last', "req")
\* a contact update that passes the ownership check and carries the phone
\* the session expects
IsValidContact(req, expected) ==
  /\ ~IsForwarded(req.contact, req.from)
  /\ normalizePhone(req.contact.phone_number) = expected

----------------------------------------------------------------------------
(* C1 *)

\* every write of "verified" found the session pending, a token has at most
\* one such write and one webhook request, and has its webhook request once
\* the writing handler is past the request
OneCommitPerToken ==
  \A t \in Tokens :
    /\ Cardinality(CommitsOf(t)) <= 1
    /\ Cardinality(HooksOf(t)) <= Cardinality(CommitsOf(t))
    /\ \A n \in CommitsOf(t) : commits[n].prior = "pending"
    /\ \A n \in CommitsOf(t) :
         (/\ t \in DOMAIN store
          /\ Has(SessionIn(store, t), "webhook_url")
          /\ Truthy(SessionIn(store, t).webhook_url)
          /\ \A i \in ContactsInFlight(t) : procs[i].pc = "await_hook")
         => Cardinality(HooksOf(t)) = 1

\* a contact that passes the ownership check: with no pending session bound
\* to its chat it changes nothing; with one whose phone it carries it makes
\* that session verified in the same step
ContactCommitsOrNothing ==
  ContactTaken /\ ~IsForwarded(last'.req.contact, last'.req.from) =>
    LET found == FoundFor(store, keys, last'.req.chat) IN
    IF found = <<>>
    THEN /\ UNCHANGED <<store, keys, timers, procs, webhooks, commits>>
         /\ last'.reply = "session_expired"
    ELSE IsValidContact(last'.req, ExpectedPhoneIn(store, found[1])) =>
           /\ StatusIn(store', found[1]) = "verified"
           /\ commits' = Append(commits, commits'[Len(commits')])
           /\ commits'[Len(commits')].token = found[1]
           /\ UNCHANGED webhooks

\* C1 (express): of two valid contact deliveries for one bound chat that are
\* in flight together, exactly one makes the session verified and issues
\* the one webhook request; the other finds no pending session and changes
\* nothing
C1_ExpressExactlyOnce ==
  /\ [](variant = "express" => OneCommitPerToken)
  /\ [][variant = "express" => ContactCommitsOrNothing]_vars

\* the second valid contact of a chat was answered "session expired" while
\* the handler of the first, which made the session verified, still waits
\* for its one webhook request
C1_Witness ==
  /\ variant = "express"
  /\ last.op = "contact" /\ Has(last, "reply") /\ last.reply = "session_expired"
  /\ \E t \in DOMAIN store, i \in Slots :
       /\ procs[i].kind = "contact" /\ procs[i].token = t
       /\ procs[i].pc = "await_hook"
       /\ procs[i].chat = last.req.chat
       /\ store[t].status = "verified"
       /\ IsValidContact(last.req, store[t].expected_phone)
       /\ Cardinality(CommitsOf(t)) = 1
       /\ Cardinality(HooksOf(t)) = 1

----------------------------------------------------------------------------
(* C2 *)

\* C2 (worker): two contact handlers for one session cannot both write
\* "verified", and the session gets at most one webhook request
C2_WorkerAtMostOnce ==
  variant = "worker" =>
    \A t \in Tokens :
      /\ Cardinality(CommitsOf(t)) <= 1
      /\ Cardinality(HooksOf(t)) <= 1

----------------------------------------------------------------------------
(* C3 *)

\* C3: once the stored status of a session is verified or expired, no step
\* of init, /start, contact, check or the timer makes it pending again
C3_NeverPendingAgain ==
  [][store' # store =>
       \A t \in Tokens :
         StatusIn(store, t) \in {"verified", "expired"}
           => StatusIn(store', t) # "pending"]_vars

\* a /start has just written the chat of a session that was expired, and
\* the session is still expired
C3_Witness ==
  /\ last.op = "start" /\ Has(last, "reply") /\ last.reply = "share_contact"
  /\ StatusIn(store, last.token) = "expired"
  /\ ChatIn(store, last.token) # 0

----------------------------------------------------------------------------
(* C4 *)

\* C4: a verified session never becomes expired and an expired session
\* never becomes verified
C4_TerminalStates ==
  [][store' # store =>
       \A t \in Tokens :
         /\ StatusIn(store, t) = "verified" => StatusIn(store', t) # "expired"
         /\ StatusIn(store, t) = "expired" => StatusIn(store', t) # "verified"]_vars

----------------------------------------------------------------------------
(* C5 *)

\* C5: no contact handled later than the session's expires_at writes
\* "verified"
C5_NoVerificationAfterExpiry ==
  \A n \in 1..Len(commits) : ~commits[n].late

----------------------------------------------------------------------------
(* C6 *)

\* C6: every verified session has a write of "verified" behind it, and
\* each such write was made for a contact whose user_id is its sender's id,
\* that came from the chat stored as chat_id when the write landed, and
\* whose normalized phone is the session's expected_phone
C6_VerifiedByOwnContact ==
  \A t \in DOMAIN store :
    StatusIn(store, t) = "verified" =>
      /\ CommitsOf(t) # {}
      /\ \A n \in CommitsOf(t) :
           /\ commits[n].contact.user_id = commits[n].from
           /\ commits[n].bound = commits[n].chat
           /\ normalizePhone(commits[n].contact.phone_number)
                = ExpectedPhoneIn(store, t)

----------------------------------------------------------------------------
(* C7 *)

\* C7: a contact update whose contact.user_id is not its sender's id is
\* answered with the security error and changes no session, no timer, no
\* handler in flight, and issues no webhook request, whatever phone it
\* carries and whatever chat it comes from
C7_ForwardedChangesNothing ==
  [][ContactTaken /\ last'.req.contact.user_id # last'.req.from =>
       /\ UNCHANGED <<store, keys, timers, procs, webhooks, commits>>
       /\ Has(last', "reply") /\ last'.reply = "security_error"]_vars

\* a forwarded contact was just rejected although its chat is bound to a
\* pending session and it carries the phone that session expects
C7_Witness ==
  /\ last.op = "contact" /\ Has(last, "reply") /\ last.reply = "security_error"
  /\ last.req.contact.user_id # last.req.from
  /\ \E t \in DOMAIN store :
       /\ FoundFor(store, keys, last.req.chat) = <<t>>
       /\ normalizePhone(last.req.contact.phone_number) = ExpectedPhoneIn(store, t)

----------------------------------------------------------------------------
(* C8 *)

\* the step makes session t verified (express), or leaves a handler that
\* has nothing left to do but write "verified" to t (worker)
VerifiesNow(t) ==
  IF variant = "express" THEN StatusIn(store', t) = "verified"
  ELSE \E i \in Slots :
         /\ IsIdle(i)
         /\ procs'[i].kind = "contact" /\ procs'[i].pc = "commit"
         /\ procs'[i].token = t

\* C8: a contact that passes the ownership check and finds its chat's
\* pending session: with another phone than the expected one it is answered
\* "verification failed" and changes nothing, so the session stays pending,
\* bound and found by the chat's next contact, and no webhook request is
\* issued; with the expected phone, before expires_at, it verifies the
\* session, and the worker's pending write of "verified" always lands
C8_MismatchKeepsPending ==
  /\ [][ContactTaken /\ last'.req.contact.user_id = last'.req.from =>
          LET found == FoundFor(store, keys, last'.req.chat) IN
          found # <<>> =>
            IF normalizePhone(last'.req.contact.phone_number)
                 # ExpectedPhoneIn(store, found[1])
            THEN /\ UNCHANGED <<store, keys, timers, procs, webhooks, commits>>
                 /\ Has(last', "reply") /\ last'.reply = "verification_failed"
                 /\ StatusIn(store', found[1]) = "pending"
                 /\ FoundFor(store', keys', last'.req.chat) = found
            ELSE now <= ExpiresAtIn(store, found[1]) => VerifiesNow(found[1])]_vars
  /\ [][\A i \in Slots :
          (/\ procs[i].kind = "contact" /\ procs[i].pc = "commit"
           /\ procs'[i] # procs[i])
          => StatusIn(store', procs[i].token) = "verified"]_vars

\* a contact with another phone was just answered "verification failed":
\* its chat's session is still pending, not past expires_at, has no write
\* of "verified" and no webhook request, and is what the chat's next
\* contact finds
C8_Witness ==
  /\ last.op = "contact" /\ Has(last, "reply")
  /\ last.reply = "verification_failed"
  /\ last.req.contact.user_id = last.req.from
  /\ \E t \in DOMAIN store :
       /\ FoundFor(store, keys, last.req.chat) = <<t>>
       /\ normalizePhone(last.req.contact.phone_number) # ExpectedPhoneIn(store, t)
       /\ StatusIn(store, t) = "pending"
       /\ now <= ExpiresAtIn(store, t)
       /\ CommitsOf(t) = {} /\ HooksOf(t) = {}

----------------------------------------------------------------------------
(* C9 *)

\* C9: a session that has a chat_id keeps that chat_id
C9_BoundOnce ==
  [][store' # store =>
       \A t \in DOMAIN store \cap DOMAIN store' :
         ChatIn(store, t) # 0 => ChatIn(store', t) = ChatIn(store, t)]_vars

----------------------------------------------------------------------------
(* C10 *)

\* C10: a step that changes the chat_id of a session finds the session's
\* stored status pending
C10_BoundOnlyWhilePending ==
  [][store' # store =>
       \A t \in DOMAIN store \cap DOMAIN store' :
         ChatIn(store', t) # ChatIn(store, t) => StatusIn(store, t) = "pending"]_vars

----------------------------------------------------------------------------
(* C11 *)

\* every session of a run is created at or before this time, so a later
\* time is later than every session's expires_at
LatestExpiry == MaxInitTick * TickMs(variant) + Ttl(variant)

\* the handler in slot i answers in this step
Answers(i) == ~IsIdle(i) /\ procs'[i] = Idle

\* the session a check handler read is pending and not past expires_at
ReadUnexpiredPending(p) ==
  /\ p.found /\ Has(p.session, "status") /\ p.session.status = "pending"
  /\ IF variant = "express" THEN ~IsExpired(p.session, now)
     ELSE ~WorkerIsExpired(p.session, now)

\* C11: a check that began after its token was created, of a session that
\* was never verified, answered later
\* than the session's expires_at reports status expired; a check that read
\* a pending session and is answered not later than its expires_at reports
\* status pending
C11_CheckReportsExpiry ==
  [][\A i \in Slots :
       procs[i].kind = "check" /\ Answers(i) =>
         /\ (/\ procs[i].found \/ procs[i].created
             /\ CommitsOf(procs[i].token) = {}
             /\ now > LatestExpiry)
            => /\ last'.code = 200
               /\ last'.body.status = "expired"
         /\ ReadUnexpiredPending(procs[i])
            => /\ last'.code = 200
               /\ last'.body.status = "pending"]_vars

----------------------------------------------------------------------------
(* C12 *)

\* the fields of a session that hold a caller's or a user's text
TextFields == {"expected_phone", "webhook_url", "client_secret", "phone", "first_name"}

\* the client_secret a session holds, undefined when it holds none
SecretOf(verifs, token) ==
  IF token \in DOMAIN verifs /\ Has(SessionIn(verifs, token), "client_secret")
  THEN SessionIn(verifs, token).client_secret ELSE Undefined

\* C12: no response of the check API has a client_secret field or the
\* secret's text in another field, the init response has neither, and a
\* webhook request carries the secret of the session whose token it carries
C12_SecretOnlyInWebhook ==
  /\ (last.op = "check" /\ Has(last, "body")) =>
       /\ ~Has(last.body, "client_secret")
       /\ \A k \in DOMAIN last.body \cap TextFields : last.body[k] # Secret
  /\ (last.op = "init" /\ Has(last, "code")) =>
       DOMAIN last \subseteq
         {"op", "req", "code", "error", "token", "bot_link", "expires_in"}
  /\ \A h \in 1..Len(webhooks) :
       webhooks[h].body.secret = SecretOf(store, webhooks[h].body.token)

\* a check has just answered 200 for a verified session that holds the
\* secret, and that session's webhook request carried it
C12_Witness ==
  /\ last.op = "check" /\ Has(last, "body")
  /\ last.body.status = "verified"
  /\ SecretOf(store, last.token) = Secret
  /\ \E h \in HooksOf(last.token) : webhooks[h].body.secret = Secret

----------------------------------------------------------------------------
(* C13 *)

\* the writes of "verified" to a token that found it pending
PendingCommitsOf(token) == {n \in CommitsOf(token) : commits[n].prior = "pending"}

\* C13: a token has at most one webhook request, and no more requests than
\* writes of "verified" that found it pending; a request goes to the
\* webhook_url its session holds and carries its token, the event name and
\* its session's client_secret
C13_WebhookAtMostOnce ==
  \A t \in Tokens :
    /\ Cardinality(HooksOf(t)) <= 1
    /\ Cardinality(HooksOf(t)) <= Cardinality(PendingCommitsOf(t))
    /\ \A h \in HooksOf(t) :
         /\ t \in DOMAIN store
         /\ Has(SessionIn(store, t), "webhook_url")
         /\ Truthy(SessionIn(store, t).webhook_url)
         /\ webhooks[h].url = SessionIn(store, t).webhook_url
         /\ webhooks[h].body.event = "verification_success"
         /\ webhooks[h].body.secret = SecretOf(store, t)

----------------------------------------------------------------------------
(* C14 *)

\* C14: the success reply does not wait for the webhook request: no contact
\* handler that has issued its request and has not replied yet is held back
\* while the request is outstanding
C14_ReplyDoesNotWait ==
  \A i \in Slots :
    (/\ procs[i].kind = "contact"
     /\ Has(procs[i], "hook")
     /\ webhooks[procs[i].hook].state = "outstanding")
    => ENABLED (\/ ExpressContactReply(i)
                \/ WorkerContactNotify(i))

----------------------------------------------------------------------------
(* C15 *)

\* webhook request h fails in this step
FailsNow(h) == webhooks[h].state = "outstanding" /\ webhooks'[h].state = "failed"

\* C15: a token never has more webhook requests than writes of "verified"
\* (a handler issues one request and none again); the step in which a
\* request fails changes no session, no handler and issues no request; a
\* handler that waits on a failed request can go on; and every contact
\* handler that wrote "verified" ends with the success reply, leaving the
\* session as it is
C15_FailureNeverSurfaces ==
  /\ [](\A t \in Tokens : Cardinality(HooksOf(t)) <= Cardinality(CommitsOf(t)))
  /\ [][\A h \in 1..Len(webhooks) :
          FailsNow(h) =>
            /\ UNCHANGED <<store, keys, timers, procs, commits>>
            /\ Len(webhooks') = Len(webhooks)
            /\ last' = Quiet]_vars
  /\ [](\A i \in Slots :
          (/\ procs[i].kind = "contact" /\ Has(procs[i], "hook")
           /\ webhooks[procs[i].hook].state = "failed")
          => ENABLED ExpressContactReply(i))
  /\ [][\A i \in Slots :
          procs[i].kind = "contact" /\ Answers(i) =>
            /\ last'.reply = "verified"
            /\ last'.token = procs[i].token
            /\ UNCHANGED <<store, commits>>]_vars

\* the success reply was just sent for a session that is verified and
\* whose one webhook request has failed
C15_Witness ==
  /\ last.op = "contact" /\ Has(last, "reply") /\ last.reply = "verified"
  /\ StatusIn(store, last.token) = "verified"
  /\ Cardinality(HooksOf(last.token)) = 1
  /\ \A h \in HooksOf(last.token) : webhooks[h].state = "failed"

----------------------------------------------------------------------------
(* C16 *)

\* uuidv4() and crypto.randomUUID() draw at random: nothing in the code
\* keeps them from returning a token that is in the store.  createSession
\* for a valid body when they do:
ExpressInitCollides(body, token) ==
  /\ variant = "express"
  /\ Quiescent
  /\ ~Falsy(body.phone) /\ validatePhoneNumber(body.phone)
  /\ Falsy(body.webhook_url) \/ validateWebhookUrl(body.webhook_url)
  /\ token \in DOMAIN store
  /\ store' = MemCreate(store, token, ExpressSessionData(body, now))
  /\ keys' = KeysAfterSet(keys, token)
  /\ timers' = timers \cup {[token |-> token, due |-> now + TimerDelayMs]}
  /\ last' = [op |-> "init", req |-> body, code |-> 201, token |-> token,
              bot_link |-> BotLink(token), expires_in |-> ExpressExpiresIn]
  /\ UNCHANGED <<variant, now, procs, webhooks, commits, issued, hooked>>

\* handleInit for a valid body when the token drawn is in the collection
WorkerInitCollides(body, token) ==
  /\ variant = "worker"
  /\ Quiescent
  /\ ~Falsy(body.phone) /\ validatePhoneNumber(body.phone)
  /\ Falsy(body.webhook_url) \/ validateWebhookUrl(body.webhook_url)
  /\ token \in DOMAIN store
  /\ store' = FsCreateDoc(store, token, WorkerDocData(body, now))
  /\ last' = [op |-> "init", req |-> body, code |-> 200, token |-> token,
              bot_link |-> BotLink(token), expires_in |-> WorkerExpiresIn]
  /\ UNCHANGED <<variant, now, keys, timers, procs, webhooks, commits, issued, hooked>>

\* init, /start and the clock, with a generator that may repeat itself
NextCollide ==
  \/ \E body \in InitBodies : ExpressInit(body)
  \/ \E body \in InitBodies : WorkerInit(body)
  \/ \E body \in InitBodies, token \in Tokens : ExpressInitCollides(body, token)
  \/ \E body \in InitBodies, token \in Tokens : WorkerInitCollides(body, token)
  \/ \E i \in Slots, chatId \in Ids, token \in Tokens : ExpressStartGet(i, chatId, token)
  \/ \E i \in Slots : ExpressStartBind(i)
  \/ \E i \in Slots, chatId \in Ids, token \in Tokens : WorkerStartGet(i, chatId, token)
  \/ \E i \in Slots : WorkerStartBind(i)
  \/ Tick

SpecCollide == Init /\ [][NextCollide]_vars

\* C16: an init never replaces or alters a session that is in the store
C16_CreateNeverOverwrites ==
  [][last'.op = "init" =>
       \A t \in DOMAIN store : t \in DOMAIN store' /\ store'[t] = store[t]]_vars

----------------------------------------------------------------------------
(* C17 *)

DigitCount(s) == Cardinality({n \in 1..Len(s) : s[n] \in Digits})
Absent(v) == v \in {Null, Undefined, <<>>}
HasHttpsScheme(url) ==
  Len(url) >= 6 /\ SubSeq(url, 1, 6) = <<"h", "t", "t", "p", "s", ":">>

\* the init bodies the contract refuses
RefusedBody(b) ==
  \/ Absent(b.phone)
  \/ DigitCount(b.phone) < 10
  \/ DigitCount(b.phone) > 15
  \/ ~Absent(b.webhook_url) /\ ~HasHttpsScheme(b.webhook_url)

----------------------------------------------------------------------------
(* C18 *)

\* the fields of a session as init writes it
CreationFields ==
  {"status", "expected_phone", "webhook_url", "client_secret", "created_at",
   "expires_at"}

\* the step is an init that answered with a token
InitSucceeds == last'.op = "init" /\ Has(last', "token")

\* the step is the read of a check of the token the step before created
ChecksAtOnce ==
  /\ last.op = "init" /\ Has(last, "token")
  /\ last'.op = "check" /\ Has(last', "req")
  /\ last'.req.token = last.token

----------------------------------------------------------------------------
(* C19 *)

\* the step is a step of a check handler in slot i
CheckStep(i) ==
  /\ procs'[i] # procs[i]
  /\ procs[i].kind = "check" \/ procs'[i].kind = "check"

\* C19: a check of a token the store has no record of (never created, or
\* deleted by the expiry timer) reads nothing, is answered 404 and changes
\* nothing in the store; no step of any check adds a record to the store.
C19_UnknownTokenNotFound ==
  [][\A i \in Slots :
       CheckStep(i) =>
         /\ DOMAIN store' = DOMAIN store
         /\ (IsIdle(i) /\ procs'[i].token \notin DOMAIN store)
            => ~procs'[i].found /\ UNCHANGED store
         /\ (procs[i].kind = "check" /\ ~procs[i].found)
            => /\ Answers(i)
               /\ last'.code = 404
               /\ last'.token = procs[i].token
               /\ UNCHANGED store]_vars

\* a check of a token that was created and then purged was answered 404
C19_Witness ==
  /\ last.op = "check" /\ Has(last, "code")
  /\ last.code = 404
  /\ last.token \in issued
  /\ last.token \notin DOMAIN store

\* a check of a token that was never created was answered 404 while a
\* session was stored
C19_WitnessNeverCreated ==
  /\ last.op = "check" /\ Has(last, "code")
  /\ last.code = 404
  /\ last.token \notin issued
  /\ DOMAIN store # {}

----------------------------------------------------------------------------
(* C20 *)

\* C20: a step that changes the store leaves, in every session that is
\* stored before and after it, the expected_phone field present and equal
\* to what it was; so from creation to deletion a session holds the
\* expected_phone it was created with, whatever /start, contact, check,
\* timer and clock steps occur.
C20_ExpectedPhoneFixed ==
  [][store' # store =>
       \A t \in DOMAIN store \cap DOMAIN store' :
         /\ Has(SessionIn(store', t), "expected_phone")
         /\ Has(SessionIn(store, t), "expected_phone")
         /\ SessionIn(store', t).expected_phone = SessionIn(store, t).expected_phone]_vars

\* a session that was bound by /start, verified by a contact and then
\* marked expired by a check holds the normalized phone of its init
C20_Witness ==
  \E t \in DOMAIN store :
    /\ StatusIn(store, t) = "expired"
    /\ CommitsOf(t) # {}
    /\ ChatIn(store, t) # 0
    /\ SessionIn(store, t).expected_phone =
         <<"2", "5", "1", "9", "1", "1", "2", "3", "4", "5", "6", "7">>

----------------------------------------------------------------------------
(* C21 *)

\* C21: a step that removes a session from the store is taken at a time
\* that is not earlier than the expires_at the session holds.
C21_NoRemovalBeforeExpiry ==
  [][store' # store =>
       \A t \in DOMAIN store \ DOMAIN store' : now >= ExpiresAtIn(store, t)]_vars

\* a session was created and has been removed by its timer
C21_Witness ==
  \E t \in issued :
    /\ t \notin DOMAIN store
    /\ \A tm \in timers : tm.token # t
    /\ now >= ExpressTtlMs

----------------------------------------------------------------------------
(* C22 *)

\* the event loop runs every callback that is due and every handler to its
\* end, and time passes
FairReclaim ==
  /\ WF_vars(Tick)
  /\ WF_vars(\E tm \in timers : ExpressTimerFire(tm))
  /\ WF_vars(\E i \in Slots : ExpressCheckRespond(i))
  /\ WF_vars(\E i \in Slots : ExpressStartBind(i))
  /\ WF_vars(\E i \in Slots : ExpressContactAfterUpdate(i))
  /\ WF_vars(\E i \in Slots : ExpressContactReply(i))
  /\ WF_vars(\E h \in 1..Len(webhooks), outcome \in {"delivered", "failed"} :
               WebhookComplete(h, outcome))

SpecReclaim == SpecExpress /\ FairReclaim

\* C22: every session that is in the store is eventually removed from it
C22_EventuallyReclaimed ==
  \A t \in Tokens : (t \in DOMAIN store) ~> (t \notin DOMAIN store)

----------------------------------------------------------------------------
(* C23 *)

\* the session of token t is absent, or marked expired, or pending and past
\* its expires_at
DeadAtStart(t) ==
  \/ t \notin DOMAIN store
  \/ StatusIn(store, t) = "expired"
  \/ StatusIn(store, t) = "pending" /\ now > ExpiresAtIn(store, t)

\* the /start handler in slot i answers in this step, and the step before
\* was its read: the store and the clock are as the handler found them
StartRanAlone(i) ==
  /\ procs[i].kind = "start" /\ Answers(i)
  /\ last.op = "start" /\ Has(last, "req") /\ ~Has(last, "reply")
  /\ Has(last.req, "token")
  /\ last.req.token = procs[i].token
  /\ last.req.chat = procs[i].chat

\* a /start <token> is read and answered in this one step
StartAnswersAtOnce ==
  /\ last'.op = "start" /\ Has(last', "req") /\ Has(last', "reply")
  /\ Has(last'.req, "token")

\* C23: a /start <token> whose session is absent, marked expired or past
\* its expires_at gets the invalid/expired reply, and one whose session is
\* verified gets the already-verified reply; neither changes the store.
C23_DeadStartChangesNothing ==
  /\ [][\A i \in Slots :
          StartRanAlone(i) =>
            /\ DeadAtStart(procs[i].token)
               => last'.reply = "invalid" /\ UNCHANGED <<store, keys>>
            /\ StatusIn(store, procs[i].token) = "verified"
               => last'.reply = "already_verified" /\ UNCHANGED <<store, keys>>]_vars
  /\ [][StartAnswersAtOnce =>
          /\ DeadAtStart(last'.req.token)
             => last'.reply = "invalid" /\ UNCHANGED <<store, keys>>
          /\ StatusIn(store, last'.req.token) = "verified"
             => last'.reply = "already_verified" /\ UNCHANGED <<store, keys>>]_vars

----------------------------------------------------------------------------
(* C24 *)

\* the step takes in a /start that has no token
StartWithoutToken ==
  /\ last'.op = "start" /\ Has(last', "req")
  /\ ~Has(last'.req, "token")

\* C24: a /start with no token is answered with the generic welcome and
\* changes nothing in the store.
C24_BareStartWelcomes ==
  [][StartWithoutToken =>
       /\ Has(last', "reply")
       /\ last'.reply = "welcome"
       /\ UNCHANGED <<store, keys, timers>>]_vars

----------------------------------------------------------------------------
(* C25 *)

\* the /start handler in slot i is for a pending session that is already
\* bound to the chat the /start comes from
RepeatsStart(i) ==
  /\ procs[i].kind = "start"
  /\ procs[i].token \in DOMAIN store
  /\ StatusIn(store, procs[i].token) = "pending"
  /\ ChatIn(store, procs[i].token) = procs[i].chat

\* C25: when /start <token> comes again from the chat a pending session is
\* bound to, the handler's answer leaves the store exactly as the first
\* /start left it.
C25_RebindSameChatIsNoOp ==
  [][\A i \in Slots :
       RepeatsStart(i) /\ Answers(i) =>
         /\ store' = store
         /\ keys' = keys]_vars

\* a second /start from the bound chat is being handled
C25_Witness ==
  \E i \in Slots :
    /\ RepeatsStart(i)
    /\ last.op = "start" /\ Has(last, "req") /\ Has(last.req, "token")
    /\ last.req.token = procs[i].token
    /\ last.req.chat = procs[i].chat

----------------------------------------------------------------------------
(* C26 *)

VerificationFields == {"phone", "telegram_id", "first_name", "verified_at"}

\* C26: every stored session with status verified has phone, telegram_id,
\* first_name and verified_at, the first three as a contact card committed
\* for it reported them, and every stored session with status pending has
\* none of the four.
C26_VerificationFieldsWithStatus ==
  \A t \in DOMAIN store :
    /\ StatusIn(store, t) = "verified" =>
         /\ VerificationFields \subseteq DOMAIN SessionIn(store, t)
         /\ \E n \in CommitsOf(t) :
              /\ SessionIn(store, t).phone = commits[n].contact.phone_number
              /\ SessionIn(store, t).telegram_id = commits[n].contact.user_id
              /\ SessionIn(store, t).first_name = commits[n].contact.first_name
    /\ StatusIn(store, t) = "pending" =>
         VerificationFields \cap DOMAIN SessionIn(store, t) = {}

----------------------------------------------------------------------------
(* The phone helpers as functions of any JS value *)

MaxRun == 14       \* digits in the longest run of an input string

\* JS values with their type
JsString(chars) == [type |-> "string", chars |-> chars]
JsNumber(n) == [type |-> "number", n |-> n]
JsBoolean(b) == [type |-> "boolean", b |-> b]
JsNull == [type |-> "null"]
JsUndefined == [type |-> "undefined"]

\* !v
JsFalsy(v) ==
  \/ v.type \in {"null", "undefined"}
  \/ v.type = "string" /\ v.chars = <<>>
  \/ v.type = "number" /\ v.n = 0
  \/ v.type = "boolean" /\ ~v.b

\* the digits the runs are cut from
DigitRun ==
  <<"1", "1", "2", "3", "4", "5", "6", "7", "8", "9", "0", "1", "2", "3", "4", "5",
    "6", "7">>
PhonePrefixes ==
  { <<>>, <<"+">>, <<"0">>, <<"0", "9">>, <<"9">>,
    <<"+", "2", "5", "1", "9">>, <<"(", "0", "9", ")", " ">> }
PhoneSuffixes == { <<>>, <<"-", "7">>, <<" ">> }

\* the arguments the helpers are called with
PhoneInputs ==
  { JsString(p \o SubSeq(DigitRun, 1, n) \o s) :
      p \in PhonePrefixes, n \in 0..MaxRun, s \in PhoneSuffixes }
  \cup { JsNull, JsUndefined, JsNumber(0), JsNumber(911234567),
         JsBoolean(FALSE), JsBoolean(TRUE) }

Returned(value) == [returned |-> value]
Threw(error) == [threw |-> error]

\* normalizePhone(v): "" for a falsy v; v.replace is not a function for a
\* truthy v that is not a string
CallNormalizePhone(v) ==
  IF JsFalsy(v) THEN Returned(<<>>)
  ELSE IF v.type = "string" THEN Returned(normalizePhone(v.chars))
  ELSE Threw("TypeError")

\* validatePhoneNumber(v): false for a falsy v and for a non-string
CallValidatePhoneNumber(v) ==
  IF JsFalsy(v) \/ v.type # "string" THEN Returned(FALSE)
  ELSE Returned(validatePhoneNumber(v.chars))

ApplyNormalizePhone(v) ==
  /\ last' = [op |-> "normalizePhone", arg |-> v, result |-> CallNormalizePhone(v)]
  /\ UNCHANGED <<variant, now, store, keys, timers, procs, webhooks, commits, issued,
                 hooked>>

ApplyValidatePhoneNumber(v) ==
  /\ last' = [op |-> "validatePhoneNumber", arg |-> v,
              result |-> CallValidatePhoneNumber(v)]
  /\ UNCHANGED <<variant, now, store, keys, timers, procs, webhooks, commits, issued,
                 hooked>>

NextPhone ==
  \/ \E v \in PhoneInputs : ApplyNormalizePhone(v)
  \/ \E v \in PhoneInputs : ApplyValidatePhoneNumber(v)

SpecPhone == Init /\ [][NextPhone]_vars

----------------------------------------------------------------------------
(* C27 *)

DigitsOf(chars) == SelectSeq(chars, LAMBDA c : c \in Digits)

\* what the contract gives for a string
NormalForm(chars) ==
  LET d == DigitsOf(chars)
  IN IF Len(d) = 10 /\ d[1] = "0" /\ d[2] = "9"
     THEN <<"2", "5", "1">> \o SubSeq(d, 2, 10)
     ELSE d

\* C27: normalizePhone returns for every argument, string or not; for a
\* string it returns the string's digits, with the leading 0 replaced by
\* 251 exactly when the digits are ten and start with 09.
C27_NormalizeTotal ==
  last.op = "normalizePhone" =>
    /\ Has(last.result, "returned")
    /\ last.arg.type = "string" => last.result.returned = NormalForm(last.arg.chars)

\* the part of C27 that is about strings
C27_NormalizeOnStrings ==
  (last.op = "normalizePhone" /\ last.arg.type = "string") =>
    /\ Has(last.result, "returned")
    /\ last.result.returned = NormalForm(last.arg.chars)

----------------------------------------------------------------------------
(* C28 *)

\* C28: validatePhoneNumber returns true exactly for a non-empty string
\* with ten to fifteen digit characters, and false for every other
\* argument, non-strings included.
C28_ValidateIffTenToFifteenDigits ==
  last.op = "validatePhoneNumber" =>
    /\ Has(last.result, "returned")
    /\ last.result.returned =
         (/\ last.arg.type = "string"
          /\ last.arg.chars # <<>>
          /\ Len(DigitsOf(last.arg.chars)) >= 10
          /\ Len(DigitsOf(last.arg.chars)) <= 15)

\* a string with fifteen digits and other characters was found valid
C28_Witness ==
  /\ last.op = "validatePhoneNumber"
  /\ last.arg.type = "string"
  /\ Len(DigitsOf(last.arg.chars)) = 15
  /\ Len(last.arg.chars) > 15
  /\ last.result = [returned |-> TRUE]

----------------------------------------------------------------------------
(* The stores' update as a function of any token and any fields *)

\* the field sets update is called with
UpdateInputs ==
  { [chat_id |-> 1], [chat_id |-> 2], ExpiredUpdate,
    [status |-> "verified", phone |-> PhoneIntl, telegram_id |-> 1,
     first_name |-> FirstName] }

\* what update(token, data) of the memory store returns
MemUpdateReturns(verifs, token) ==
  IF token \in DOMAIN verifs THEN "true" ELSE "false"

\* updateDoc has no return statement
FsUpdateDocReturns == "undefined"

ApplyMemUpdate(token, data) ==
  /\ variant = "express"
  /\ store' = MemUpdate(store, token, data)
  /\ last' = [op |-> "update", req |-> [token |-> token, data |-> data],
              result |-> MemUpdateReturns(store, token)]
  /\ UNCHANGED <<variant, now, keys, timers, procs, webhooks, commits, issued, hooked>>

ApplyFsUpdateDoc(token, data) ==
  /\ variant = "worker"
  /\ store' = FsUpdateDoc(store, token, data)
  /\ last' = [op |-> "update", req |-> [token |-> token, data |-> data],
              result |-> FsUpdateDocReturns]
  /\ UNCHANGED <<variant, now, keys, timers, procs, webhooks, commits, issued, hooked>>

NextUpdate ==
  \/ \E body \in InitBodies : ExpressInit(body)
  \/ \E body \in InitBodies : WorkerInit(body)
  \/ \E token \in Tokens, data \in UpdateInputs : ApplyMemUpdate(token, data)
  \/ \E token \in Tokens, data \in UpdateInputs : ApplyFsUpdateDoc(token, data)

SpecUpdate == Init /\ [][NextUpdate]_vars

----------------------------------------------------------------------------
(* C29 *)

\* the step is an update that meets the contract
UpdateFrame ==
  last'.op = "update" =>
    LET t == last'.req.token
        data == last'.req.data
    IN IF t \notin DOMAIN store
       THEN /\ last'.result = "false"
            /\ store' = store
       ELSE /\ last'.result = "true"
            /\ DOMAIN store' = DOMAIN store
            /\ \A u \in DOMAIN store \ {t} : store'[u] = store[u]
            /\ DOMAIN SessionIn(store', t) = DOMAIN SessionIn(store, t) \cup DOMAIN data
            /\ \A k \in DOMAIN data : SessionIn(store', t)[k] = data[k]
            /\ \A k \in DOMAIN SessionIn(store, t) \ DOMAIN data :
                 SessionIn(store', t)[k] = SessionIn(store, t)[k]

\* C29: update on a token the store does not have returns false and leaves
\* the store as it is; on a token it has, update returns true, leaves the
\* other sessions as they are and changes the session in exactly the given
\* fields.
C29_UpdateFrame == [][UpdateFrame]_vars

\* C29 for the in-memory store alone
C29_MemoryUpdateFrame == [][variant = "express" => UpdateFrame]_vars

----------------------------------------------------------------------------
(* C30 *)

\* the stored sessions that are pending and bound to chatId
PendingOf(chatId) ==
  {t \in DOMAIN store : ChatIn(store, t) = chatId /\ StatusIn(store, t) = "pending"}

\* C30: in every state and for every chat, the find by chat returns nothing
\* exactly when no stored session is pending and bound to the chat, and
\* otherwise returns one token, of a stored session that is pending and
\* bound to the chat: the one created first among them, so the result is a
\* function of the store.  A contact handler goes on with that token.
C30_FindPendingByChat ==
  /\ \A chatId \in Ids :
       LET found == FoundFor(store, keys, chatId) IN
       /\ found = <<>> <=> PendingOf(chatId) = {}
       /\ found # <<>> =>
            /\ Len(found) = 1
            /\ found[1] \in PendingOf(chatId)
            /\ \A u \in PendingOf(chatId) : found[1] <= u
  /\ \A i \in Slots :
       (procs[i].kind = "contact" /\ last.op = "contact" /\ Has(last, "req")
        /\ ~Has(last, "reply") /\ last.req.chat = procs[i].chat
        /\ variant = "worker")
       => <<procs[i].token>> = FoundFor(store, keys, procs[i].chat)

\* a contact handler has taken the first of two pending sessions bound to
\* its chat
C30_Witness ==
  \E i \in Slots :
    /\ procs[i].kind = "contact"
    /\ last.op = "contact" /\ Has(last, "req") /\ ~Has(last, "reply")
    /\ last.req.chat = procs[i].chat
    /\ Cardinality(PendingOf(procs[i].chat)) = 2
    /\ <<procs[i].token>> = FoundFor(store, keys, procs[i].chat)

----------------------------------------------------------------------------
(* C31 *)

\* the webhook_url a session holds, null when it holds none
WebhookUrlIn(verifs, token) ==
  IF Has(SessionIn(verifs, token), "webhook_url")
  THEN SessionIn(verifs, token).webhook_url ELSE Null

\* C31: every stored session has a webhook_url that is null or absent or
\* has the https: scheme, and no step changes the webhook_url of a session
\* that is stored before and after it.
C31_WebhookUrlHttpsForLife ==
  /\ [](\A t \in DOMAIN store :
          \/ WebhookUrlIn(store, t) = Null
          \/ HasHttpsScheme(WebhookUrlIn(store, t)))
  /\ [][store' # store =>
          \A t \in DOMAIN store \cap DOMAIN store' :
            WebhookUrlIn(store', t) = WebhookUrlIn(store, t)]_vars

\* a session created with an https webhook_url was bound, verified and then
\* marked expired, and holds that webhook_url
C31_Witness ==
  \E t \in DOMAIN store :
    /\ StatusIn(store, t) = "expired"
    /\ CommitsOf(t) # {}
    /\ WebhookUrlIn(store, t) = UrlHttps

----------------------------------------------------------------------------
(* init when the bot platform or the store fails *)

\* bot.botInfo?.username is set, or getMe() answers, or getMe() throws
BotLookups == {"known", "fetched", "unavailable"}
\* storage.create resolves or throws
MemCreateOutcomes == {"stored", "throws"}
\* the fetch of createDoc: a 2xx response, a response that is not 2xx, or a
\* rejected promise (no connection)
FetchOutcomes == {"ok", "error_response", "rejected"}

\* POST /api/init of the Express routes with its two upstream calls
ExpressInitUpstream(body, bot, storage) ==
  /\ variant = "express"
  /\ UNCHANGED <<variant, now, procs, webhooks, commits>>
  /\ IF Falsy(body.phone) \/ ~validatePhoneNumber(body.phone)
     THEN /\ last' = [op |-> "init", req |-> body, upstream |-> "unused",
                      code |-> 400, error |-> "phone"]
          /\ UNCHANGED <<store, keys, timers, issued, hooked>>
     ELSE IF Truthy(body.webhook_url) /\ ~validateWebhookUrl(body.webhook_url)
     THEN /\ last' = [op |-> "init", req |-> body, upstream |-> "unused",
                      code |-> 400, error |-> "webhook_url"]
          /\ UNCHANGED <<store, keys, timers, issued, hooked>>
     ELSE IF bot = "unavailable"
     THEN /\ last' = [op |-> "init", req |-> body, upstream |-> "failed",
                      code |-> 500, error |-> "bot"]
          /\ UNCHANGED <<store, keys, timers, issued, hooked>>
     ELSE \E token \in Tokens \ issued :
            /\ IsNextToken(token)
            /\ Admitted(body)
            /\ issued' = issued \cup {token}
            /\ IF storage = "throws"
               THEN /\ last' = [op |-> "init", req |-> body, upstream |-> "failed",
                                code |-> 500, error |-> "internal"]
                    /\ UNCHANGED <<store, keys, timers, hooked>>
               ELSE /\ hooked' = (hooked \/ Truthy(body.webhook_url))
                    /\ store' = MemCreate(store, token, ExpressSessionData(body, now))
                    /\ keys' = KeysAfterSet(keys, token)
                    /\ timers' = timers \cup
                                   {[token |-> token, due |-> now + TimerDelayMs]}
                    /\ last' = [op |-> "init", req |-> body, upstream |-> "ok",
                                code |-> 201, token |-> token,
                                bot_link |-> BotLink(token),
                                expires_in |-> ExpressExpiresIn]

\* handleInit with the fetch of createDoc: the response is not looked at
WorkerInitUpstream(body, fetched) ==
  /\ variant = "worker"
  /\ UNCHANGED <<variant, now, keys, timers, procs, webhooks, commits>>
  /\ IF Falsy(body.phone) \/ ~validatePhoneNumber(body.phone)
     THEN /\ last' = [op |-> "init", req |-> body, upstream |-> "unused",
                      code |-> 400, error |-> "phone"]
          /\ UNCHANGED <<store, issued, hooked>>
     ELSE IF Truthy(body.webhook_url) /\ ~validateWebhookUrl(body.webhook_url)
     THEN /\ last' = [op |-> "init", req |-> body, upstream |-> "unused",
                      code |-> 400, error |-> "webhook_url"]
          /\ UNCHANGED <<store, issued, hooked>>
     ELSE \E token \in Tokens \ issued :
            /\ IsNextToken(token)
            /\ Admitted(body)
            /\ issued' = issued \cup {token}
            /\ IF fetched = "rejected"
               THEN /\ last' = [op |-> "init", req |-> body, upstream |-> "failed",
                                code |-> 500, error |-> "internal"]
                    /\ UNCHANGED <<store, hooked>>
               ELSE /\ IF fetched = "ok"
                       THEN /\ store' = FsCreateDoc(store, token, WorkerDocData(body, now))
                            /\ hooked' = (hooked \/ Truthy(body.webhook_url))
                       ELSE UNCHANGED <<store, hooked>>
                    /\ last' = [op |-> "init", req |-> body,
                                upstream |-> IF fetched = "ok" THEN "ok" ELSE "failed",
                                code |-> 200, token |-> token,
                                bot_link |-> BotLink(token),
                                expires_in |-> WorkerExpiresIn]

NextInitUpstream ==
  \/ \E body \in InitBodies, bot \in BotLookups, storage \in MemCreateOutcomes :
       ExpressInitUpstream(body, bot, storage)
  \/ \E body \in InitBodies, fetched \in FetchOutcomes : WorkerInitUpstream(body, fetched)
  \/ \E i \in Slots, token \in Tokens : ExpressCheckGet(i, token)
  \/ \E i \in Slots : ExpressCheckRespond(i)
  \/ \E i \in Slots, token \in Tokens : WorkerCheckGet(i, token)
  \/ \E i \in Slots : WorkerCheckDecide(i)

SpecInitUpstream == Init /\ [][NextInitUpstream]_vars

----------------------------------------------------------------------------
(* C32 *)

\* C32: an init during which the bot lookup or the store failed is answered
\* 500 without a token and stores nothing; an init that answers with a
\* token has stored the session of that token.
C32_TokenOnlyIfPersisted ==
  [][last'.op = "init" =>
       /\ last'.upstream = "failed" =>
            /\ last'.code = 500
            /\ ~Has(last', "token")
            /\ store' = store
       /\ Has(last', "token") => last'.token \in DOMAIN store']_vars

\* C32 for the Express routes alone
C32_ExpressTokenOnlyIfPersisted ==
  [][(variant = "express" /\ last'.op = "init") =>
       /\ last'.upstream = "failed" =>
            /\ last'.code = 500
            /\ ~Has(last', "token")
            /\ store' = store
       /\ Has(last', "token") => last'.token \in DOMAIN store']_vars

----------------------------------------------------------------------------
(* C33 *)

\* C33: no two stored sessions with status pending have the same chat_id.
C33_OnePendingPerChat ==
  \A t, u \in DOMAIN store :
    (/\ t # u
     /\ StatusIn(store, t) = "pending"
     /\ StatusIn(store, u) = "pending"
     /\ ChatIn(store, t) # 0)
    => ChatIn(store, t) # ChatIn(store, u)

----------------------------------------------------------------------------
(* C34 *)

\* the step takes in a contact update
ContactIntake == last'.op = "contact" /\ Has(last', "req")

\* C34: no write of status verified lands on a session that a check has
\* marked expired, whatever the order of the check's write and the contact
\* handler's read and write; and a contact taken in from a chat that has no
\* pending session bound to it is rejected at once and changes nothing.
C34_ExpiryBindsVerification ==
  /\ [](\A n \in 1..Len(commits) : commits[n].prior # "expired")
  /\ [][(ContactIntake /\ PendingOf(last'.req.chat) = {}) =>
          /\ Has(last', "reply")
          /\ last'.reply # "verified"
          /\ UNCHANGED <<store, commits, webhooks>>]_vars

----------------------------------------------------------------------------
(* C35 *)

\* the tokens whose stored session the step creates, removes or changes
ChangedTokens ==
  {t \in DOMAIN store \cup DOMAIN store' :
     \/ t \notin DOMAIN store
     \/ t \notin DOMAIN store'
     \/ store'[t] # store[t]}

\* the tokens the step acts on: the token of the handler that takes the
\* step, the token of the timer that fires
ActedOn ==
  {procs[i].token : i \in {j \in Slots : procs'[j] # procs[j] /\ ~IsIdle(j)}}
  \cup {procs'[i].token : i \in {j \in Slots : procs'[j] # procs[j]
                                                /\ procs'[j].kind # "idle"}}
  \cup {tm.token : tm \in timers \ timers'}

\* C35: a step of a /start, a check, a contact handler or a timer changes
\* no stored session but that of the token it acts on.
C35_IsolatedPerToken ==
  [][(store' # store /\ last'.op # "init") => ChangedTokens \subseteq ActedOn]_vars

\* one session is verified while another, bound to a chat, is still pending
C35_Witness ==
  \E t, u \in DOMAIN store :
    /\ StatusIn(store, t) = "verified"
    /\ CommitsOf(t) # {}
    /\ StatusIn(store, u) = "pending"
    /\ ChatIn(store, u) # 0

----------------------------------------------------------------------------
(* C36 *)

\* C36 (Express): a step removes a session only when its stored status is
\* pending; a session that was verified stays in the store, its timer
\* fired or not; and a check of it that began after it was created is
\* answered 200.
C36_TimerSparesVerified ==
  /\ [][store' # store =>
          \A t \in DOMAIN store \ DOMAIN store' : StatusIn(store, t) = "pending"]_vars
  /\ [](\A t \in issued : CommitsOf(t) # {} => t \in DOMAIN store)
  /\ [][\A i \in Slots :
          (/\ procs[i].kind = "check" /\ Answers(i)
           /\ CommitsOf(procs[i].token) # {}
           /\ procs[i].found \/ procs[i].created)
          => last'.code = 200]_vars

\* the timer of a verified session has fired and a check of the session
\* was answered 200 afterwards
C36_Witness ==
  /\ last.op = "check" /\ Has(last, "code")
  /\ last.code = 200
  /\ CommitsOf(last.token) # {}
  /\ \A tm \in timers : tm.token # last.token
  /\ last.token \in DOMAIN store

----------------------------------------------------------------------------
(* C37 *)

\* the step issues a webhook request
IssuesWebhook == Len(webhooks') = Len(webhooks) + 1

\* C37: when a webhook request is issued, the stored session of the token
\* in its payload has status verified and the phone, telegram_id and
\* first_name the payload carries.
C37_WebhookAfterVerifiedWrite ==
  [][IssuesWebhook =>
       LET body == webhooks'[Len(webhooks')].body
           t == body.token
       IN /\ t \in DOMAIN store
          /\ StatusIn(store, t) = "verified"
          /\ SessionIn(store, t).phone = body.phone
          /\ SessionIn(store, t).telegram_id = body.telegram_id
          /\ SessionIn(store, t).first_name = body.first_name]_vars

----------------------------------------------------------------------------
(* worker: POST /webhook as one request, with the answers of its upstream
   calls *)

\* jsonResp(data, status = 200)
jsonResp(data, status) == [status |-> status, body |-> data]

\* the updates Telegram (or anyone) may post: a body that is not JSON, the
\* JSON null, an update without message, a message without chat, /start
\* with and without a token, a contact with and without a sender
TelegramUpdates ==
  {[shape |-> "unparsable"], [shape |-> "null"], [shape |-> "no_message"],
   [shape |-> "no_chat"]}
    \cup [shape : {"start"}, chat : Ids, token : Tokens]
    \cup [shape : {"start_bare"}, chat : Ids]
    \cup {[shape |-> "contact", chat |-> c, from |-> Sender(c), contact |-> k] :
            c \in Ids, k \in Contacts}
    \cup [shape : {"contact_no_from"}, chat : Ids, contact : Contacts]

\* the answers of the fetch calls the handler makes: the read (getDoc or
\* queryDocs), the write (updateDoc) and sendTelegramMessage
UpstreamAnswers == [read : FetchOutcomes, write : FetchOutcomes, send : FetchOutcomes]

\* what one run of the try block leaves: the documents, the webhook
\* requests it issued, the error it threw ("none" when it returned,
\* "store" from a Firestore call, "telegram" from sendMessage) and the
\* message that reached the chat
Run(docs, hooks, error, reply) ==
  [docs |-> docs, hooks |-> hooks, error |-> error, reply |-> reply]

\* await sendTelegramMessage(...): a rejected fetch throws, the response of
\* an answered one is not looked at
Replied(docs, hooks, text, answers) ==
  IF answers.send = "rejected"
  THEN Run(docs, hooks, "telegram", "none")
  ELSE Run(docs, hooks, "none", IF answers.send = "ok" THEN text ELSE "none")

\* updateDoc with its fetch: a response that is not ok is not noticed
FsUpdateDocFetched(docs, id, data, fetched) ==
  IF fetched = "ok" THEN FsUpdateDoc(docs, id, data) ELSE docs

\* branch A, /start <token>
StartRun(docs, update, answers) ==
  IF answers.read = "rejected" THEN Run(docs, <<>>, "store", "none")
  ELSE IF answers.read = "ok" /\ WorkerCanBind(docs, update.token)
  THEN IF answers.write = "rejected" THEN Run(docs, <<>>, "store", "none")
       ELSE Replied(FsUpdateDocFetched(docs, update.token,
                                       StartUpdate(update.chat), answers.write),
                    <<>>, "share_contact", answers)
  ELSE Replied(docs, <<>>, "invalid", answers)

\* branch B, a shared contact
ContactRun(docs, update, answers) ==
  LET sessions == IF answers.read = "ok" THEN FsQueryDocs(docs, update.chat)
                  ELSE <<>>
      found == FirstPending(docs, sessions)
  IN IF IsForwarded(update.contact, update.from)
     THEN Replied(docs, <<>>, "security_error", answers)
     ELSE IF answers.read = "rejected" THEN Run(docs, <<>>, "store", "none")
     ELSE IF found = <<>> THEN Replied(docs, <<>>, "session_expired", answers)
     ELSE LET token == found[1]
              data == fromFirestore(docs[token])
              updateData == WorkerVerifiedUpdate(update.contact)
          IN IF PhoneMismatch(normalizePhone(update.contact.phone_number),
                              data.expected_phone)
             THEN Replied(docs, <<>>, "verification_failed", answers)
             ELSE IF answers.write = "rejected"
             THEN Run(docs, <<>>, "store", "none")
             ELSE Replied(FsUpdateDocFetched(docs, token, updateData,
                                             answers.write),
                          IF Has(data, "webhook_url")
                          THEN <<WebhookRequest(data.webhook_url,
                                   WebhookPayload(token, updateData, data))>>
                          ELSE <<>>,
                          "verified", answers)

\* the try block of handleTelegramWebhook
WebhookRun(docs, update, answers) ==
  CASE update.shape = "unparsable" -> Run(docs, <<>>, "SyntaxError", "none")
    [] update.shape \in {"null", "no_chat", "contact_no_from"} ->
         Run(docs, <<>>, "TypeError", "none")
    [] update.shape \in {"no_message", "start_bare"} ->
         Run(docs, <<>>, "none", "none")
    [] update.shape = "start" -> StartRun(docs, update, answers)
    [] update.shape = "contact" -> ContactRun(docs, update, answers)

\* a faulty catch that answers as handleInit and handleCheck do (C38 fails
\* with it)
WebhookCatchFails(e) == jsonResp([error |-> "Internal server error"], 500)

\* catch (e) { console.error(e); return jsonResp({ ok: true }); }
WebhookCatch(e) == jsonResp([ok |-> TRUE], 200)

\* POST /webhook, from the request to the response
handleTelegramWebhook(update, answers) ==
  LET run == WebhookRun(store, update, answers)
      resp == IF run.error = "none" THEN jsonResp([ok |-> TRUE], 200)
              ELSE WebhookCatch(run.error)
  IN /\ variant = "worker"
     /\ Quiescent
     /\ Len(webhooks) + Len(run.hooks) <= MaxDispatches
     /\ store' = run.docs
     /\ webhooks' = webhooks \o run.hooks
     /\ last' = [op |-> "webhook", req |-> update,
                 error |-> run.error, reply |-> run.reply,
                 code |-> resp.status, body |-> resp.body]
     /\ UNCHANGED <<variant, now, keys, timers, procs, commits, issued, hooked>>

NextTelegramWebhook ==
  \/ \E body \in InitBodies : WorkerInit(body)
  \/ \E update \in TelegramUpdates, answers \in UpstreamAnswers :
       handleTelegramWebhook(update, answers)

SpecTelegramWebhook == Init /\ [][NextTelegramWebhook]_vars

----------------------------------------------------------------------------
(* C38 *)

\* C38: the worker's POST /webhook answers 200 {ok: true} to every update,
\* those whose handling threw included.
C38_WebhookAlwaysOk ==
  last.op = "webhook" =>
    /\ last.code = 200
    /\ DOMAIN last.body = {"ok"}
    /\ last.body.ok = TRUE

\* an update whose store call failed has been answered
C38_Witness ==
  /\ last.op = "webhook"
  /\ last.req.shape = "contact"
  /\ last.error = "store"
  /\ last.code = 200

----------------------------------------------------------------------------
(* the three copies of normalizePhone, side by side *)

\* normalizePhone of the Telegram bot service
botNormalizePhone(phone) ==
  IF Falsy(phone) THEN <<>>
  ELSE LET cleaned == StripNonDigits(phone)
       IN IF StartsWith09(cleaned) /\ Len(cleaned) = 10
          THEN <<"2", "5", "1">> \o SubSeq(cleaned, 2, Len(cleaned))
          ELSE cleaned

\* a faulty copy that rewrites every ten-digit number (C39 fails with it)
NormalizeAnyTenDigits(phone) ==
  IF Falsy(phone) THEN <<>>
  ELSE LET cleaned == StripNonDigits(phone)
       IN IF Len(cleaned) = 10
          THEN <<"2", "5", "1">> \o SubSeq(cleaned, 2, Len(cleaned))
          ELSE cleaned

\* normalizePhone of the worker
workerNormalizePhone(phone) ==
  IF Falsy(phone) THEN <<>>
  ELSE LET cleaned == StripNonDigits(phone)
       IN IF StartsWith09(cleaned) /\ Len(cleaned) = 10
          THEN <<"2", "5", "1">> \o SubSeq(cleaned, 2, Len(cleaned))
          ELSE cleaned

Copies == {"session", "bot", "worker"}

\* the copy's function on a string
NormalizeBy(copy, phone) ==
  CASE copy = "session" -> normalizePhone(phone)
    [] copy = "bot" -> botNormalizePhone(phone)
    [] copy = "worker" -> workerNormalizePhone(phone)

\* the copy called with any value: "" for a falsy one, v.replace is not a
\* function for a truthy one that is not a string
CallNormalizeBy(copy, v) ==
  IF JsFalsy(v) THEN Returned(<<>>)
  ELSE IF v.type = "string" THEN Returned(NormalizeBy(copy, v.chars))
  ELSE Threw("TypeError")

\* the three copies called with the same value
ApplyNormalizeCopies(v) ==
  /\ last' = [op |-> "normalizeCopies", arg |-> v,
              results |-> [copy \in Copies |-> CallNormalizeBy(copy, v)]]
  /\ UNCHANGED <<variant, now, store, keys, timers, procs, webhooks, commits, issued,
                 hooked>>

\* one copy called with a string, and again with what it returned
ApplyNormalizeTwice(copy, v) ==
  /\ v.type = "string"
  /\ LET once == NormalizeBy(copy, v.chars)
     IN last' = [op |-> "normalizeTwice", copy |-> copy, arg |-> v,
                 once |-> once, twice |-> NormalizeBy(copy, once)]
  /\ UNCHANGED <<variant, now, store, keys, timers, procs, webhooks, commits, issued,
                 hooked>>

NextNormalize ==
  \/ \E v \in PhoneInputs : ApplyNormalizeCopies(v)
  \/ \E copy \in Copies, v \in PhoneInputs : ApplyNormalizeTwice(copy, v)

SpecNormalize == Init /\ [][NextNormalize]_vars

----------------------------------------------------------------------------
(* C39 *)

\* C39: the three normalizePhone copies give the same outcome on every
\* input, and on every string normalizing the normalized value changes
\* nothing.
C39_NormalizeCopiesAgreeAndIdempotent ==
  /\ last.op = "normalizeCopies" =>
       \A a, b \in Copies :
         /\ DOMAIN last.results[a] = DOMAIN last.results[b]
         /\ Has(last.results[a], "returned") =>
              last.results[a].returned = last.results[b].returned
  /\ last.op = "normalizeTwice" => last.twice = last.once

\* a local number has been rewritten to 251... by the worker's copy and
\* normalized again
C39_Witness ==
  /\ last.op = "normalizeTwice"
  /\ last.copy = "worker"
  /\ StartsWith09(last.arg.chars)
  /\ Len(last.once) = 12
  /\ last.once # last.arg.chars
  /\ last.twice = last.once

====
